---- MODULE Spec2Model ----
(***************************************************************************)
(* Model of the multi-agent coordination core of the Brolostack WebSocket  *)
(* FastAPI server (examples/websocket-showcase/server/python/              *)
(* fastapi_server.py).                                                     *)
(*                                                                         *)
(* The server is a single asyncio event loop.  Every Socket.IO event is    *)
(* served by a coroutine; a coroutine runs without interruption between    *)
(* two `await` expressions and may be suspended at each `await`.  One      *)
(* action of this module is therefore one such uninterrupted segment of a  *)
(* handler: from its entry, or from the `await` it was suspended at, up to *)
(* and including the next `await sio.emit(...)`.  The position and the     *)
(* local variables of a suspended handler are kept in a frame.             *)
(***************************************************************************)
EXTENDS Integers, Sequences, FiniteSets, TLC

VARIABLES
    environment,        \* module global `environment` (line 18)
    conn,               \* transport: state of every connection id (sid)
    rooms,              \* transport: sio room membership of every sid
    registered_agents,  \* module global dict, in insertion order (line 64)
    active_sessions,    \* module global dict, in insertion order (line 63)
    server_stats,       \* module global dict of counters (lines 69-75)
    inflight,           \* the suspended handler of every slot, or Idle
    last,               \* the handler that returned in the step just taken
    ops                 \* number of client events received so far

vars == <<environment, conn, rooms, registered_agents, active_sessions,
          server_stats, inflight, last, ops>>

----------------------------------------------------------------------------
(* Bounds of the model.                                                    *)

\* Number of join/register/start-task/progress/collaboration/simulate
\* events the clients send in one behaviour.
MaxOps == 4

\* Number of consecutive client events that read the same time.
ClockResolution == 3

Conns == {"c1", "c2"}
\* the connections that submit tasks, progress reports and collaboration
\* requests; every connection joins sessions and registers agents
Coordinators == {"c1"}
Slots == Conns \cup {"http"}
SessionIds == {"s1", "s2"}

----------------------------------------------------------------------------
(* Python dictionaries.                                                    *)
(* A dict whose iteration order matters is a sequence of [key, val]        *)
(* entries in insertion order; a payload or a record is a TLA+ function    *)
(* whose DOMAIN is the set of keys that are present.                       *)

None == "None"
EmptyDict == <<>>

\* d.get(k, default)
Get(d, k, default) == IF k \in DOMAIN d THEN d[k] ELSE default

\* {**d, **e}
Merge(d, e) ==
    [k \in (DOMAIN d) \cup (DOMAIN e) |-> IF k \in DOMAIN e THEN e[k] ELSE d[k]]

\* Python truthiness of an identifier (`if not x`)
Truthy(x) == x # None /\ x # ""

Keys(od) == [i \in 1..Len(od) |-> od[i].key]
KeySet(od) == {od[i].key : i \in 1..Len(od)}
Has(od, k) == k \in KeySet(od)
IndexOf(od, k) == CHOOSE i \in 1..Len(od) : od[i].key = k
Lookup(od, k) == od[IndexOf(od, k)].val

\* od[k] = v : an existing key keeps its position, a new key goes last
Put(od, k, v) ==
    IF Has(od, k)
    THEN [i \in 1..Len(od) |-> IF od[i].key = k THEN [key |-> k, val |-> v] ELSE od[i]]
    ELSE Append(od, [key |-> k, val |-> v])

\* del od[k]
Del(od, k) == SelectSeq(od, LAMBDA e : e.key # k)

\* unordered dict: d[k] = v
PutF(d, k, v) == [x \in (DOMAIN d) \cup {k} |-> IF x = k THEN v ELSE d[x]]

Max(a, b) == IF a >= b THEN a ELSE b

\* datetime.now(): a logical clock driven by the client events; it shows the
\* same time for ClockResolution consecutive events
Now == ops \div ClockResolution

----------------------------------------------------------------------------
(* find_suitable_agents (lines 347-375)                                    *)

\* The body of the `for agent_id, agent in session_agents.items()` loop:
\* whether `agent` is appended to suitable_agents.
\* the load test written `<=`: an agent at its limit still passes
IsSuitableAtLimit(agent, required_capabilities, required_agent_types) ==
    /\ ~ (required_agent_types # {} /\ Get(agent, "type", None) \notin required_agent_types)
    /\ \A cap \in required_capabilities : cap \in Get(agent, "capabilities", {})
    /\ Get(agent, "status", None) = "idle"
    /\ Get(Get(agent, "metadata", EmptyDict), "currentTasks", 0)
         <= Get(Get(agent, "metadata", EmptyDict), "maxConcurrentTasks", 1)

IsSuitable(agent, required_capabilities, required_agent_types) ==
    /\ ~ (required_agent_types # {} /\ Get(agent, "type", None) \notin required_agent_types)
    /\ \A cap \in required_capabilities : cap \in Get(agent, "capabilities", {})
    /\ Get(agent, "status", None) = "idle"
    /\ Get(Get(agent, "metadata", EmptyDict), "currentTasks", 0)
         < Get(Get(agent, "metadata", EmptyDict), "maxConcurrentTasks", 1)

RECURSIVE SuitableLoop(_, _, _)
SuitableLoop(session_agents, required_capabilities, required_agent_types) ==
    IF session_agents = <<>> THEN <<>>
    ELSE LET agent == Head(session_agents).val
             rest == SuitableLoop(Tail(session_agents), required_capabilities,
                                  required_agent_types)
         IN IF IsSuitable(agent, required_capabilities, required_agent_types)
            THEN <<agent>> \o rest
            ELSE rest

find_suitable_agents_in(sessions, task_definition, session_id) ==
    IF ~ Has(sessions, session_id) THEN <<>>
    ELSE LET session_agents == Get(Lookup(sessions, session_id), "agents", <<>>)
             requirements == Get(task_definition, "requirements", EmptyDict)
         IN SuitableLoop(session_agents,
                         Get(requirements, "capabilities", {}),
                         Get(requirements, "agentTypes", {}))

find_suitable_agents(task_definition, session_id) ==
    find_suitable_agents_in(active_sessions, task_definition, session_id)

----------------------------------------------------------------------------
(* Payloads the clients send.                                              *)

AgentPayloads ==
    { [id |-> "a1", type |-> "worker", capabilities |-> {"nlp"}, status |-> "idle",
       metadata |-> [currentTasks |-> 0, maxConcurrentTasks |-> 1]],
      [id |-> "a1", type |-> "worker", capabilities |-> {"nlp"}, status |-> "busy"],
      [id |-> "a2", type |-> "planner", capabilities |-> {"nlp", "vision"},
       status |-> "idle"],
      [id |-> "a2", type |-> "worker", capabilities |-> {"nlp", "vision"},
       status |-> "idle",
       metadata |-> [currentTasks |-> 1, maxConcurrentTasks |-> 1]],
      [type |-> "worker", status |-> "idle"] }

TaskPayloads ==
    { [id |-> "t1", sessionId |-> "s1",
       requirements |-> [capabilities |-> {"nlp"}], collaborationMode |-> "parallel"],
      [id |-> "t2", sessionId |-> "s1",
       requirements |-> [capabilities |-> {"vision"}, agentTypes |-> {"worker"}]],
      [id |-> "t1", sessionId |-> "s1", collaborationMode |-> "sequential"],
      [id |-> "t2"],
      [sessionId |-> "s1"] }

ProgressPayloads ==
    { [sessionId |-> "s1", taskId |-> "t1", status |-> "completed"],
      [sessionId |-> "s1", taskId |-> "t1", status |-> "processing"],
      [sessionId |-> "s1", status |-> "completed"] }

CollaborationPayloads ==
    { [sessionId |-> "s1", requestId |-> "r1", targetAgent |-> "a1"],
      [sessionId |-> "s1", requestId |-> "r2"] }

JoinPayloads == {[sessionId |-> s] : s \in SessionIds} \cup {EmptyDict}

AuthPayloads == {[apiKey |-> "key"], EmptyDict}

SimulatePayloads == {EmptyDict}

----------------------------------------------------------------------------
(* Handler frames.                                                         *)

Idle == [op |-> "idle"]
NoLast == [op |-> "none"]

\* the handler of `slot` is suspended at an await with frame f
Suspend(slot, f) ==
    /\ inflight' = [inflight EXCEPT ![slot] = f]
    /\ last' = NoLast

\* the handler of `slot` returns ("ok"), returns after reporting a
\* validation error ("invalid"), or ends with an uncaught exception
Finish(slot, f, result) ==
    /\ inflight' = [inflight EXCEPT ![slot] = Idle]
    /\ last' = Merge(f, [result |-> result])

\* a client event can be received on connection c
CanReceive(c) ==
    /\ conn[c] = "open"
    /\ inflight[c] = Idle
    /\ ops < MaxOps

----------------------------------------------------------------------------
(* Initial state: the module globals as the import leaves them             *)
(* (lines 63-75), no connection yet.                                       *)

Init ==
    /\ environment = "development"
    /\ conn = [c \in Conns |-> "new"]
    /\ rooms = [c \in Conns |-> {}]
    /\ registered_agents = <<>>
    /\ active_sessions = <<>>
    /\ server_stats = [connections |-> 0, messages_processed |-> 0,
                       tasks_completed |-> 0, errors |-> 0]
    /\ inflight = [s \in Slots |-> Idle]
    /\ last = NoLast
    /\ ops = 0

----------------------------------------------------------------------------
(* connect (lines 77-108)                                                  *)

\* the connection is counted after the authentication, so that a refused
\* client is never counted
connect_counts_accepted(sid, auth) ==
    /\ conn[sid] = "new"
    /\ LET api_key == Get(auth, "apiKey", None)
           f == [op |-> "connect", sid |-> sid, arg |-> auth]
       IN IF environment = "production" /\ ~ Truthy(api_key)
          THEN /\ conn' = [conn EXCEPT ![sid] = "closing"]
               /\ server_stats' = server_stats
               /\ last' = Merge(f, [result |-> "rejected",
                                    out |-> <<[event |-> "auth-error", room |-> sid]>>])
          ELSE /\ conn' = [conn EXCEPT ![sid] = "open"]
               /\ server_stats' = [server_stats EXCEPT !.connections = @ + 1]
               /\ last' = Merge(f, [result |-> "ok",
                                    out |-> <<[event |-> "args-welcome", room |-> sid]>>])
    /\ UNCHANGED <<environment, rooms, registered_agents, active_sessions,
                   inflight, ops>>

connect(sid, auth) ==
    /\ conn[sid] = "new"
    /\ server_stats' = [server_stats EXCEPT !.connections = @ + 1]
    /\ LET api_key == Get(auth, "apiKey", None)
           f == [op |-> "connect", sid |-> sid, arg |-> auth]
       IN IF environment = "production" /\ ~ Truthy(api_key)
          THEN \* auth-error, sio.disconnect(sid), return False: the
               \* transport closes the connection and reports the disconnect
               /\ conn' = [conn EXCEPT ![sid] = "closing"]
               /\ last' = Merge(f, [result |-> "rejected",
                                    out |-> <<[event |-> "auth-error", room |-> sid]>>])
          ELSE /\ conn' = [conn EXCEPT ![sid] = "open"]
               /\ last' = Merge(f, [result |-> "ok",
                                    out |-> <<[event |-> "args-welcome", room |-> sid]>>])
    /\ UNCHANGED <<environment, rooms, registered_agents, active_sessions,
                   inflight, ops>>

----------------------------------------------------------------------------
(* join_session (lines 135-174)                                            *)

NewSession(session_id, now) ==
    [sessionId |-> session_id, createdAt |-> now, lastActivity |-> now,
     status |-> "active", agents |-> <<>>, tasks |-> EmptyDict,
     activeStreams |-> EmptyDict, collaborationRequests |-> EmptyDict,
     metrics |-> [totalTasks |-> 0, completedTasks |-> 0, errorCount |-> 0,
                  avgExecutionTime |-> 0]]

\* the session literal is assigned without the `not in` test of line 145
JoinCreateAlways(sessions, session_id, now) ==
    Put(sessions, session_id, NewSession(session_id, now))

\* lines 145-165: the session is created on first reference and its
\* lastActivity refreshed
JoinCreate(sessions, session_id, now) ==
    LET created == IF Has(sessions, session_id) THEN sessions
                   ELSE Put(sessions, session_id, NewSession(session_id, now))
    IN Put(created, session_id,
           Merge(Lookup(created, session_id), [lastActivity |-> now]))

\* sio.enter_room only updates the room table of the in-process manager,
\* so the handler is not suspended before its emit
join_session(sid, data) ==
    /\ CanReceive(sid)
    /\ ops' = ops + 1
    /\ LET session_id == Get(data, "sessionId", None)
           f == [op |-> "join_session", sid |-> sid, arg |-> data]
       IN IF ~ Truthy(session_id)
          THEN /\ Finish(sid, Merge(f, [out |-> <<[event |-> "error", room |-> sid,
                                                   message |-> "Session ID required"]>>]),
                         "invalid")
               /\ UNCHANGED <<rooms, active_sessions>>
          ELSE LET sessions == JoinCreate(active_sessions, session_id, Now)
               IN /\ rooms' = [rooms EXCEPT ![sid] = @ \cup {session_id}]
                  /\ active_sessions' = sessions
                  /\ Finish(sid, Merge(f, [session_id |-> session_id,
                                           out |-> <<[event |-> "session-state", room |-> sid,
                                                      session |-> Lookup(sessions, session_id)]>>]),
                            "ok")
    /\ UNCHANGED <<environment, conn, registered_agents, server_stats>>

----------------------------------------------------------------------------
(* register_agent (lines 176-203)                                          *)

\* sio.manager.get_rooms(sid) without the client's own room: the session
\* rooms of sid as a list, in an order the transport chooses
Orders(S) ==
    {o \in [1..Cardinality(S) -> S] : \A i, j \in 1..Cardinality(S) : i # j => o[i] # o[j]}

\* the loop is left after the first session it has added the agent to
RECURSIVE RegisterLoopFirstOnly(_, _, _, _)
RegisterLoopFirstOnly(sessions, todo, agent_info, now) ==
    IF todo = <<>> THEN [sessions |-> sessions, todo |-> <<>>, out |-> <<>>]
    ELSE LET room == Head(todo)
         IN IF Has(sessions, room)
            THEN LET session == Lookup(sessions, room)
                     updated == Merge(session,
                                  [agents |-> Put(session.agents, agent_info.id, agent_info),
                                   lastActivity |-> now])
                 IN [sessions |-> Put(sessions, room, updated),
                     todo |-> <<>>,
                     out |-> <<[event |-> "agent-registered", room |-> room,
                                sessionId |-> room, agent |-> agent_info]>>]
            ELSE RegisterLoopFirstOnly(sessions, Tail(todo), agent_info, now)

\* `for room in ...` (lines 192-201), run up to and including the next emit
RECURSIVE RegisterLoop(_, _, _, _)
RegisterLoop(sessions, todo, agent_info, now) ==
    IF todo = <<>> THEN [sessions |-> sessions, todo |-> <<>>, out |-> <<>>]
    ELSE LET room == Head(todo)
         IN IF Has(sessions, room)
            THEN LET session == Lookup(sessions, room)
                     updated == Merge(session,
                                  [agents |-> Put(session.agents, agent_info.id, agent_info),
                                   lastActivity |-> now])
                 IN [sessions |-> Put(sessions, room, updated),
                     todo |-> Tail(todo),
                     out |-> <<[event |-> "agent-registered", room |-> room,
                                sessionId |-> room, agent |-> agent_info]>>]
            ELSE RegisterLoop(sessions, Tail(todo), agent_info, now)

\* lines 184-189
StampAgent(agent_info, sid, now) ==
    Merge(agent_info, [socket_id |-> sid, registered_at |-> now,
                       environment |-> environment])

RegisterContinue(sid, f, r) ==
    /\ active_sessions' = r.sessions
    /\ IF r.out = <<>> \/ r.todo = <<>>
       THEN Finish(sid, Merge(f, [todo |-> <<>>, out |-> f.out \o r.out]), "ok")
       ELSE Suspend(sid, Merge(f, [todo |-> r.todo, out |-> f.out \o r.out]))

register_agent(sid, agent_info) ==
    /\ CanReceive(sid)
    /\ ops' = ops + 1
    /\ LET agent_id == Get(agent_info, "id", None)
           f == [op |-> "register_agent", sid |-> sid, arg |-> agent_info, out |-> <<>>]
       IN IF ~ Truthy(agent_id)
          THEN /\ Finish(sid, Merge(f, [out |-> <<[event |-> "error", room |-> sid,
                                                   message |-> "Agent ID required"]>>]),
                         "invalid")
               /\ UNCHANGED <<registered_agents, active_sessions>>
          ELSE LET stamped == StampAgent(agent_info, sid, Now)
               IN /\ registered_agents' = Put(registered_agents, agent_id, stamped)
                  /\ \E order \in Orders(rooms[sid]) :
                        RegisterContinue(sid,
                            Merge(f, [agent_info |-> stamped, rooms |-> rooms[sid]]),
                            RegisterLoop(active_sessions, order, stamped, Now))
    /\ UNCHANGED <<environment, conn, rooms, server_stats>>

register_agent_resume(sid) ==
    /\ inflight[sid].op = "register_agent"
    /\ RegisterContinue(sid, inflight[sid],
          RegisterLoop(active_sessions, inflight[sid].todo, inflight[sid].agent_info, Now))
    /\ UNCHANGED <<environment, conn, rooms, registered_agents, server_stats, ops>>

----------------------------------------------------------------------------
(* disconnect (lines 110-133)                                              *)

\* lines 117-118
AgentsToRemove(agents, sid) ==
    SelectSeq(Keys(agents),
              LAMBDA agent_id : Get(Lookup(agents, agent_id), "socket_id", None) = sid)

\* the tasks of a session are dropped with the agent that leaves it
RECURSIVE DisconnectLoopDropsTasks(_, _, _, _, _, _)
DisconnectLoopDropsTasks(agents, sessions, todo, cur, pos, size) ==
    LET state(status, out) ==
            [agents |-> agents, sessions |-> sessions, todo |-> todo, cur |-> cur,
             pos |-> pos, size |-> size, status |-> status, out |-> out]
    IN IF cur = None
       THEN IF todo = <<>> THEN state("done", <<>>)
            ELSE IF ~ Has(agents, Head(todo)) THEN state("KeyError", <<>>)
            ELSE DisconnectLoopDropsTasks(Del(agents, Head(todo)), sessions, Tail(todo),
                                          Head(todo), 1, Len(sessions))
       ELSE IF Len(sessions) # size THEN state("RuntimeError", <<>>)
            ELSE IF pos > Len(sessions)
            THEN DisconnectLoopDropsTasks(agents, sessions, todo, None, 0, 0)
            ELSE LET session == sessions[pos].val
                 IN IF Has(Get(session, "agents", <<>>), cur)
                    THEN [agents |-> agents,
                          sessions |-> Put(sessions, sessions[pos].key,
                                           Merge(session, [agents |-> Del(session.agents, cur),
                                                           tasks |-> EmptyDict])),
                          todo |-> todo, cur |-> cur, pos |-> pos + 1, size |-> size,
                          status |-> "emit",
                          out |-> <<[event |-> "agent-unregistered",
                                     room |-> sessions[pos].key,
                                     sessionId |-> sessions[pos].key,
                                     agentId |-> cur, reason |-> "disconnection"]>>]
                    ELSE DisconnectLoopDropsTasks(agents, sessions, todo, cur, pos + 1, size)

\* The two nested loops (lines 120-133), run up to and including the next
\* emit.  `cur` is the agent id of the running inner loop (None between two
\* agents), `pos` the position of the iterator over active_sessions.items()
\* and `size` the size of the dict when the iterator was created: a dict
\* iterator raises RuntimeError when the dict has changed size.
RECURSIVE DisconnectLoop(_, _, _, _, _, _)
DisconnectLoop(agents, sessions, todo, cur, pos, size) ==
    LET state(status, out) ==
            [agents |-> agents, sessions |-> sessions, todo |-> todo, cur |-> cur,
             pos |-> pos, size |-> size, status |-> status, out |-> out]
    IN IF cur = None
       THEN IF todo = <<>> THEN state("done", <<>>)
            ELSE IF ~ Has(agents, Head(todo)) THEN state("KeyError", <<>>)
            ELSE DisconnectLoop(Del(agents, Head(todo)), sessions, Tail(todo),
                                Head(todo), 1, Len(sessions))
       ELSE IF Len(sessions) # size THEN state("RuntimeError", <<>>)
            ELSE IF pos > Len(sessions)
            THEN DisconnectLoop(agents, sessions, todo, None, 0, 0)
            ELSE LET session == sessions[pos].val
                 IN IF Has(Get(session, "agents", <<>>), cur)
                    THEN [agents |-> agents,
                          sessions |-> Put(sessions, sessions[pos].key,
                                           Merge(session, [agents |-> Del(session.agents, cur)])),
                          todo |-> todo, cur |-> cur, pos |-> pos + 1, size |-> size,
                          status |-> "emit",
                          out |-> <<[event |-> "agent-unregistered",
                                     room |-> sessions[pos].key,
                                     sessionId |-> sessions[pos].key,
                                     agentId |-> cur, reason |-> "disconnection"]>>]
                    ELSE DisconnectLoop(agents, sessions, todo, cur, pos + 1, size)

DisconnectContinue(sid, f, r) ==
    /\ registered_agents' = r.agents
    /\ active_sessions' = r.sessions
    /\ LET g == Merge(f, [todo |-> r.todo, cur |-> r.cur, pos |-> r.pos,
                          size |-> r.size, out |-> f.out \o r.out])
       IN IF r.status = "emit"
          THEN Suspend(sid, g) /\ UNCHANGED rooms
          ELSE \* the handler is over: the transport drops sid from its rooms
               /\ Finish(sid, g, IF r.status = "done" THEN "ok" ELSE r.status)
               /\ rooms' = [rooms EXCEPT ![sid] = {}]

disconnect(sid) ==
    /\ conn[sid] \in {"open", "closing"}
    /\ inflight[sid] = Idle
    /\ conn' = [conn EXCEPT ![sid] = "closed"]
    /\ server_stats' = [server_stats EXCEPT !.connections = Max(0, @ - 1)]
    /\ LET agents_to_remove == AgentsToRemove(registered_agents, sid)
       IN DisconnectContinue(sid,
             [op |-> "disconnect", sid |-> sid, out |-> <<>>,
              agents_to_remove |-> agents_to_remove],
             DisconnectLoop(registered_agents, active_sessions, agents_to_remove,
                            None, 0, 0))
    /\ UNCHANGED <<environment, ops>>

disconnect_resume(sid) ==
    /\ inflight[sid].op = "disconnect"
    /\ LET f == inflight[sid]
       IN DisconnectContinue(sid, f,
             DisconnectLoop(registered_agents, active_sessions, f.todo, f.cur,
                            f.pos, f.size))
    /\ UNCHANGED <<environment, conn, server_stats, ops>>

----------------------------------------------------------------------------
(* start_task (lines 205-266)                                              *)

\* lines 217-226: the task is recorded only in a session that exists
\* the task is stored but the submission is not counted
RecordTaskUncounted(sessions, session_id, task_id, task_definition, now) ==
    IF Has(sessions, session_id)
    THEN LET session == Lookup(sessions, session_id)
             task == Merge(task_definition,
                           [startTime |-> now, status |-> "started",
                            environment |-> environment])
         IN Put(sessions, session_id,
                Merge(session,
                      [tasks |-> PutF(session.tasks, task_id, task),
                       lastActivity |-> now]))
    ELSE sessions

\* a missing session is created, as join_session does, before the task is
\* stored
RecordTaskCreating(sessions, session_id, task_id, task_definition, now) ==
    LET created == IF Has(sessions, session_id) THEN sessions
                   ELSE Put(sessions, session_id, NewSession(session_id, now))
        session == Lookup(created, session_id)
        task == Merge(task_definition,
                      [startTime |-> now, status |-> "started",
                       environment |-> environment])
    IN Put(created, session_id,
           Merge(session,
                 [tasks |-> PutF(session.tasks, task_id, task),
                  metrics |-> [session.metrics EXCEPT !.totalTasks = @ + 1],
                  lastActivity |-> now]))

\* recording a task marks every agent of the session busy
RecordTaskOccupying(sessions, session_id, task_id, task_definition, now) ==
    IF Has(sessions, session_id)
    THEN LET session == Lookup(sessions, session_id)
             task == Merge(task_definition,
                           [startTime |-> now, status |-> "started",
                            environment |-> environment])
         IN Put(sessions, session_id,
                Merge(session,
                      [tasks |-> PutF(session.tasks, task_id, task),
                       agents |-> [i \in 1..Len(session.agents) |->
                                      [key |-> session.agents[i].key,
                                       val |-> Merge(session.agents[i].val,
                                                     [status |-> "busy"])]],
                       metrics |-> [session.metrics EXCEPT !.totalTasks = @ + 1],
                       lastActivity |-> now]))
    ELSE sessions

\* a task id already recorded keeps its record, the new fields merged in
RecordTaskMerging(sessions, session_id, task_id, task_definition, now) ==
    IF Has(sessions, session_id)
    THEN LET session == Lookup(sessions, session_id)
             task == Merge(Get(session.tasks, task_id, EmptyDict),
                           Merge(task_definition,
                                 [startTime |-> now, status |-> "started",
                                  environment |-> environment]))
         IN Put(sessions, session_id,
                Merge(session,
                      [tasks |-> PutF(session.tasks, task_id, task),
                       metrics |-> [session.metrics EXCEPT !.totalTasks = @ + 1],
                       lastActivity |-> now]))
    ELSE sessions

RecordTask(sessions, session_id, task_id, task_definition, now) ==
    IF Has(sessions, session_id)
    THEN LET session == Lookup(sessions, session_id)
             task == Merge(task_definition,
                           [startTime |-> now, status |-> "started",
                            environment |-> environment])
         IN Put(sessions, session_id,
                Merge(session,
                      [tasks |-> PutF(session.tasks, task_id, task),
                       metrics |-> [session.metrics EXCEPT !.totalTasks = @ + 1],
                       lastActivity |-> now]))
    ELSE sessions

\* len(active_sessions.get(session_id, {}).get('agents', {})) (line 236)
AvailableAgents(sessions, session_id) ==
    IF Has(sessions, session_id)
    THEN Len(Get(Lookup(sessions, session_id), "agents", <<>>))
    ELSE 0

TaskAssigned(task_definition, session_id, agent, mode) ==
    [event |-> "task-assigned", room |-> session_id, taskId |-> task_definition.id,
     agentId |-> agent.id, mode |-> mode, taskDefinition |-> task_definition]

\* lines 242-264: the assignment, up to and including its first emit
\* the sequential branch takes suitable_agents[-1] instead of [0]
AssignLast(sid, f, task_definition, session_id, suitable_agents) ==
    LET collaboration_mode == Get(task_definition, "collaborationMode", "sequential")
    IN IF collaboration_mode = "parallel"
       THEN LET g == Merge(f, [pc |-> "parallel", next |-> 2,
                               out |-> <<TaskAssigned(task_definition, session_id,
                                                      suitable_agents[1], "parallel")>>])
            IN IF Len(suitable_agents) = 1 THEN Finish(sid, g, "ok") ELSE Suspend(sid, g)
       ELSE Finish(sid, Merge(f, [pc |-> "sequential",
                                  out |-> <<TaskAssigned(task_definition, session_id,
                                                         suitable_agents[Len(suitable_agents)],
                                                         "sequential")>>]),
                   "ok")

Assign(sid, f, task_definition, session_id, suitable_agents) ==
    LET collaboration_mode == Get(task_definition, "collaborationMode", "sequential")
    IN IF collaboration_mode = "parallel"
       THEN LET g == Merge(f, [pc |-> "parallel", next |-> 2,
                               out |-> <<TaskAssigned(task_definition, session_id,
                                                      suitable_agents[1], "parallel")>>])
            IN IF Len(suitable_agents) = 1 THEN Finish(sid, g, "ok") ELSE Suspend(sid, g)
       ELSE Finish(sid, Merge(f, [pc |-> "sequential",
                                  out |-> <<TaskAssigned(task_definition, session_id,
                                                         suitable_agents[1], "sequential")>>]),
                   "ok")

\* messages_processed is incremented before the task id is validated
start_task_counts_first(sid, task_definition) ==
    /\ CanReceive(sid)
    /\ ops' = ops + 1
    /\ server_stats' = [server_stats EXCEPT !.messages_processed = @ + 1]
    /\ LET task_id == Get(task_definition, "id", None)
           session_id == Get(task_definition, "sessionId", "default")
           f == [op |-> "start_task", sid |-> sid, arg |-> task_definition,
                 session_id |-> session_id, out |-> <<>>]
       IN IF ~ Truthy(task_id)
          THEN /\ Finish(sid, Merge(f, [out |-> <<[event |-> "error", room |-> sid,
                                                   message |-> "Task ID required"]>>]),
                         "invalid")
               /\ UNCHANGED active_sessions
          ELSE LET sessions == RecordTask(active_sessions, session_id, task_id,
                                          task_definition, Now)
                   suitable_agents ==
                       find_suitable_agents_in(sessions, task_definition, session_id)
                   g == Merge(f, [suitable_agents |-> suitable_agents])
               IN /\ active_sessions' = sessions
                  /\ IF suitable_agents = <<>>
                     THEN Suspend(sid, Merge(g,
                            [pc |-> "task_error",
                             out |-> <<[event |-> "task-error", room |-> session_id,
                                        taskId |-> task_id,
                                        requirements |->
                                            Get(task_definition, "requirements", EmptyDict),
                                        availableAgents |->
                                            AvailableAgents(sessions, session_id)]>>]))
                     ELSE Assign(sid, g, task_definition, session_id, suitable_agents)
    /\ UNCHANGED <<environment, conn, rooms, registered_agents>>

start_task(sid, task_definition) ==
    /\ CanReceive(sid)
    /\ ops' = ops + 1
    /\ LET task_id == Get(task_definition, "id", None)
           session_id == Get(task_definition, "sessionId", "default")
           f == [op |-> "start_task", sid |-> sid, arg |-> task_definition,
                 session_id |-> session_id, out |-> <<>>]
       IN IF ~ Truthy(task_id)
          THEN /\ Finish(sid, Merge(f, [out |-> <<[event |-> "error", room |-> sid,
                                                   message |-> "Task ID required"]>>]),
                         "invalid")
               /\ UNCHANGED <<active_sessions, server_stats>>
          ELSE LET sessions == RecordTask(active_sessions, session_id, task_id,
                                          task_definition, Now)
                   suitable_agents ==
                       find_suitable_agents_in(sessions, task_definition, session_id)
                   g == Merge(f, [suitable_agents |-> suitable_agents])
               IN /\ server_stats' = [server_stats EXCEPT !.messages_processed = @ + 1]
                  /\ active_sessions' = sessions
                  /\ IF suitable_agents = <<>>
                     THEN Suspend(sid, Merge(g,
                            [pc |-> "task_error",
                             out |-> <<[event |-> "task-error", room |-> session_id,
                                        taskId |-> task_id,
                                        requirements |->
                                            Get(task_definition, "requirements", EmptyDict),
                                        availableAgents |->
                                            AvailableAgents(sessions, session_id)]>>]))
                     ELSE Assign(sid, g, task_definition, session_id, suitable_agents)
    /\ UNCHANGED <<environment, conn, rooms, registered_agents>>

\* the handler returns after the emit without counting the error
start_task_error_resume_uncounted(sid) ==
    /\ inflight[sid].op = "start_task"
    /\ inflight[sid].pc = "task_error"
    /\ Finish(sid, inflight[sid], "ok")
    /\ UNCHANGED <<environment, conn, rooms, registered_agents, active_sessions,
                   server_stats, ops>>

\* after the task-error emit (lines 239-240)
start_task_error_resume(sid) ==
    /\ inflight[sid].op = "start_task"
    /\ inflight[sid].pc = "task_error"
    /\ server_stats' = [server_stats EXCEPT !.errors = @ + 1]
    /\ Finish(sid, inflight[sid], "ok")
    /\ UNCHANGED <<environment, conn, rooms, registered_agents, active_sessions, ops>>

\* the loop emits for the first suitable agent at every iteration
start_task_parallel_resume_first(sid) ==
    /\ inflight[sid].op = "start_task"
    /\ inflight[sid].pc = "parallel"
    /\ LET f == inflight[sid]
           g == Merge(f, [next |-> f.next + 1,
                          out |-> Append(f.out,
                                    TaskAssigned(f.arg, f.session_id,
                                                 f.suitable_agents[1], "parallel"))])
       IN IF f.next = Len(f.suitable_agents) THEN Finish(sid, g, "ok") ELSE Suspend(sid, g)
    /\ UNCHANGED <<environment, conn, rooms, registered_agents, active_sessions,
                   server_stats, ops>>

\* the next iteration of `for agent in suitable_agents` (lines 247-254)
start_task_parallel_resume(sid) ==
    /\ inflight[sid].op = "start_task"
    /\ inflight[sid].pc = "parallel"
    /\ LET f == inflight[sid]
           g == Merge(f, [next |-> f.next + 1,
                          out |-> Append(f.out,
                                    TaskAssigned(f.arg, f.session_id,
                                                 f.suitable_agents[f.next], "parallel"))])
       IN IF f.next = Len(f.suitable_agents) THEN Finish(sid, g, "ok") ELSE Suspend(sid, g)
    /\ UNCHANGED <<environment, conn, rooms, registered_agents, active_sessions,
                   server_stats, ops>>

----------------------------------------------------------------------------
(* agent_progress (lines 268-300)                                          *)

\* the metrics update written as the `else` of the task lookup: a
\* completion is counted only for a task the session does not hold
RecordProgressElse(sessions, session_id, task_id, progress_data, now) ==
    IF Has(sessions, session_id) /\ Truthy(task_id)
    THEN LET session == Lookup(sessions, session_id)
             tasks == IF task_id \in DOMAIN session.tasks
                      THEN PutF(session.tasks, task_id,
                                Merge(session.tasks[task_id],
                                      [lastProgress |-> progress_data,
                                       lastUpdate |-> now]))
                      ELSE session.tasks
             metrics == IF /\ task_id \notin DOMAIN session.tasks
                           /\ Get(progress_data, "status", None) = "completed"
                        THEN [session.metrics EXCEPT !.completedTasks = @ + 1]
                        ELSE session.metrics
         IN Put(sessions, session_id,
                Merge(session, [tasks |-> tasks, lastActivity |-> now,
                                metrics |-> metrics]))
    ELSE sessions

\* lines 276-289
RecordProgress(sessions, session_id, task_id, progress_data, now) ==
    IF Has(sessions, session_id) /\ Truthy(task_id)
    THEN LET session == Lookup(sessions, session_id)
             tasks == IF task_id \in DOMAIN session.tasks
                      THEN PutF(session.tasks, task_id,
                                Merge(session.tasks[task_id],
                                      [lastProgress |-> progress_data,
                                       lastUpdate |-> now]))
                      ELSE session.tasks
             metrics == IF Get(progress_data, "status", None) = "completed"
                        THEN [session.metrics EXCEPT !.completedTasks = @ + 1]
                        ELSE session.metrics
         IN Put(sessions, session_id,
                Merge(session, [tasks |-> tasks, lastActivity |-> now,
                                metrics |-> metrics]))
    ELSE sessions

\* the server-wide counter counts only a completion of a recorded task
CountCompletedRecorded(stats, sessions, session_id, task_id, progress_data) ==
    IF /\ Has(sessions, session_id) /\ Truthy(task_id)
       /\ task_id \in DOMAIN Lookup(sessions, session_id).tasks
       /\ Get(progress_data, "status", None) = "completed"
    THEN [stats EXCEPT !.tasks_completed = @ + 1]
    ELSE stats

\* line 289
CountCompleted(stats, sessions, session_id, task_id, progress_data) ==
    IF /\ Has(sessions, session_id) /\ Truthy(task_id)
       /\ Get(progress_data, "status", None) = "completed"
    THEN [stats EXCEPT !.tasks_completed = @ + 1]
    ELSE stats

\* messages_processed is incremented inside the `if` of line 277
agent_progress_counts_known(sid, progress_data) ==
    /\ CanReceive(sid)
    /\ ops' = ops + 1
    /\ LET session_id == Get(progress_data, "sessionId", "default")
           task_id == Get(progress_data, "taskId", None)
           counted == IF Has(active_sessions, session_id) /\ Truthy(task_id)
                      THEN [server_stats EXCEPT !.messages_processed = @ + 1]
                      ELSE server_stats
       IN /\ active_sessions' =
                RecordProgress(active_sessions, session_id, task_id, progress_data, Now)
          /\ server_stats' =
                CountCompleted(counted, active_sessions, session_id, task_id, progress_data)
          /\ Finish(sid, [op |-> "agent_progress", sid |-> sid, arg |-> progress_data,
                          session_id |-> session_id,
                          out |-> <<[event |-> "task-progress", room |-> session_id,
                                     sessionId |-> session_id,
                                     progress |-> progress_data]>>],
                    "ok")
    /\ UNCHANGED <<environment, conn, rooms, registered_agents>>

agent_progress(sid, progress_data) ==
    /\ CanReceive(sid)
    /\ ops' = ops + 1
    /\ LET session_id == Get(progress_data, "sessionId", "default")
           task_id == Get(progress_data, "taskId", None)
       IN /\ active_sessions' =
                RecordProgress(active_sessions, session_id, task_id, progress_data, Now)
          /\ server_stats' =
                CountCompleted([server_stats EXCEPT !.messages_processed = @ + 1],
                               active_sessions, session_id, task_id, progress_data)
          /\ Finish(sid, [op |-> "agent_progress", sid |-> sid, arg |-> progress_data,
                          session_id |-> session_id,
                          out |-> <<[event |-> "task-progress", room |-> session_id,
                                     sessionId |-> session_id,
                                     progress |-> progress_data]>>],
                    "ok")
    /\ UNCHANGED <<environment, conn, rooms, registered_agents>>

----------------------------------------------------------------------------
(* collaboration_request (lines 302-345)                                   *)

\* a missing session is created before the request is stored
StoreRequestCreating(sessions, session_id, request_id, request_data, now) ==
    LET created == IF Has(sessions, session_id) THEN sessions
                   ELSE Put(sessions, session_id, NewSession(session_id, now))
        session == Lookup(created, session_id)
    IN Put(created, session_id,
           Merge(session,
                 [collaborationRequests |->
                     PutF(session.collaborationRequests, request_id,
                          Merge(request_data,
                                [timestamp |-> now, status |-> "pending"]))]))

\* lines 311-317
StoreRequest(sessions, session_id, request_id, request_data, now) ==
    IF Has(sessions, session_id)
    THEN LET session == Lookup(sessions, session_id)
         IN Put(sessions, session_id,
                Merge(session,
                      [collaborationRequests |->
                          PutF(session.collaborationRequests, request_id,
                               Merge(request_data,
                                     [timestamp |-> now, status |-> "pending"]))]))
    ELSE sessions

\* a missing target falls through to the broadcast branch
RouteRequestBroadcast(agents, sid, session_id, request_id, target_agent, request_data) ==
    LET target_socket == IF Truthy(target_agent) /\ Has(agents, target_agent)
                         THEN Get(Lookup(agents, target_agent), "socket_id", None)
                         ELSE None
    IN IF Truthy(target_socket)
       THEN [event |-> "collaboration-request", room |-> target_socket,
             request |-> request_data]
       ELSE [event |-> "collaboration-request", room |-> session_id,
             request |-> request_data]

\* a request for a known target is emitted to the session room
RouteRequestToSession(agents, sid, session_id, request_id, target_agent, request_data) ==
    IF Truthy(target_agent)
    THEN LET target_socket == IF Has(agents, target_agent)
                              THEN Get(Lookup(agents, target_agent), "socket_id", None)
                              ELSE None
         IN IF Truthy(target_socket)
            THEN [event |-> "collaboration-request", room |-> session_id,
                  request |-> request_data]
            ELSE [event |-> "collaboration-error", room |-> sid,
                  requestId |-> request_id]
    ELSE [event |-> "collaboration-request", room |-> session_id,
          request |-> request_data]

\* lines 319-343: the one event the handler emits
RouteRequest(agents, sid, session_id, request_id, target_agent, request_data) ==
    IF Truthy(target_agent)
    THEN LET target_socket == IF Has(agents, target_agent)
                              THEN Get(Lookup(agents, target_agent), "socket_id", None)
                              ELSE None
         IN IF Truthy(target_socket)
            THEN [event |-> "collaboration-request", room |-> target_socket,
                  request |-> request_data]
            ELSE [event |-> "collaboration-error", room |-> sid,
                  requestId |-> request_id]
    ELSE [event |-> "collaboration-request", room |-> session_id,
          request |-> request_data]

collaboration_request(sid, request_data) ==
    /\ CanReceive(sid)
    /\ ops' = ops + 1
    /\ LET session_id == Get(request_data, "sessionId", "default")
           request_id == Get(request_data, "requestId", None)
           target_agent == Get(request_data, "targetAgent", None)
       IN /\ server_stats' = [server_stats EXCEPT !.messages_processed = @ + 1]
          /\ active_sessions' =
                StoreRequest(active_sessions, session_id, request_id, request_data, Now)
          /\ Finish(sid, [op |-> "collaboration_request", sid |-> sid,
                          arg |-> request_data, session_id |-> session_id,
                          out |-> <<RouteRequest(registered_agents, sid, session_id,
                                                 request_id, target_agent, request_data)>>],
                    "ok")
    /\ UNCHANGED <<environment, conn, rooms, registered_agents>>

----------------------------------------------------------------------------
(* simulate_agent_activity (lines 474-534) and simulate_task_execution     *)
(* (lines 536-608)                                                         *)

\* lines 481-497; the id is 'demo-agent-' followed by the current second
DemoAgent(agent_type, now) ==
    [id |-> "demo-agent-" \o ToString(now), type |-> agent_type,
     capabilities |-> {"data-analysis", "machine-learning", "visualization"},
     status |-> "idle",
     metadata |-> [maxConcurrentTasks |-> 3, currentTasks |-> 0],
     socket_id |-> "demo", registered_at |-> now, environment |-> environment]

\* lines 502-515
AddDemoAgent(sessions, session_id, demo_agent, now) ==
    LET created == IF Has(sessions, session_id) THEN sessions
                   ELSE Put(sessions, session_id, NewSession(session_id, now))
        session == Lookup(created, session_id)
    IN Put(created, session_id,
           Merge(session, [agents |-> Put(session.agents, demo_agent.id, demo_agent)]))

simulate_agent_activity(request_data) ==
    /\ inflight["http"] = Idle
    /\ ops < MaxOps
    /\ ops' = ops + 1
    /\ LET session_id == Get(request_data, "sessionId", "demo-session")
           agent_type == Get(request_data, "agentType", "data-processor")
           demo_agent == DemoAgent(agent_type, Now)
       IN /\ registered_agents' = Put(registered_agents, demo_agent.id, demo_agent)
          /\ active_sessions' = AddDemoAgent(active_sessions, session_id, demo_agent, Now)
          \* asyncio.create_task(simulate_task_execution(...)) (line 525)
          /\ Suspend("http", [op |-> "simulate_task_execution", sid |-> "http",
                              arg |-> request_data, session_id |-> session_id,
                              agent_id |-> demo_agent.id,
                              out |-> <<[event |-> "agent-registered", room |-> session_id,
                                         sessionId |-> session_id, agent |-> demo_agent]>>])
    /\ UNCHANGED <<environment, conn, rooms, server_stats>>

\* total_duration of the six steps, in ms (lines 541-550, 589)
SimulatedExecutionTime == 17000

\* lines 599-605; the integer part of the average, in ms
CompleteDemoTask(sessions, session_id) ==
    IF Has(sessions, session_id)
    THEN LET session == Lookup(sessions, session_id)
             completed == session.metrics.completedTasks + 1
             current_avg == session.metrics.avgExecutionTime
         IN Put(sessions, session_id,
                Merge(session,
                      [metrics |-> [session.metrics EXCEPT
                          !.completedTasks = completed,
                          !.avgExecutionTime =
                              (current_avg * (completed - 1) + SimulatedExecutionTime)
                                  \div completed]]))
    ELSE sessions

\* the end of the background task, after its last emit (lines 599-608)
simulate_task_execution ==
    /\ inflight["http"].op = "simulate_task_execution"
    /\ active_sessions' = CompleteDemoTask(active_sessions, inflight["http"].session_id)
    /\ server_stats' = [server_stats EXCEPT !.tasks_completed = @ + 1]
    /\ Finish("http", Merge(inflight["http"],
                            [out |-> Append(inflight["http"].out,
                                            [event |-> "task-completed",
                                             room |-> inflight["http"].session_id,
                                             agentId |-> inflight["http"].agent_id])]),
              "ok")
    /\ UNCHANGED <<environment, conn, rooms, registered_agents, ops>>

----------------------------------------------------------------------------
(* The event loop: it runs one handler segment at a time.                  *)

Next ==
    \/ \E sid \in Conns, auth \in AuthPayloads : connect(sid, auth)
    \/ \E sid \in Conns : disconnect(sid)
    \/ \E sid \in Conns : disconnect_resume(sid)
    \/ \E sid \in Conns, data \in JoinPayloads : join_session(sid, data)
    \/ \E sid \in Conns, agent_info \in AgentPayloads : register_agent(sid, agent_info)
    \/ \E sid \in Conns : register_agent_resume(sid)
    \/ \E sid \in Coordinators, task_definition \in TaskPayloads : start_task(sid, task_definition)
    \/ \E sid \in Conns : start_task_error_resume(sid)
    \/ \E sid \in Conns : start_task_parallel_resume(sid)
    \/ \E sid \in Coordinators, progress_data \in ProgressPayloads : agent_progress(sid, progress_data)
    \/ \E sid \in Coordinators, request_data \in CollaborationPayloads :
          collaboration_request(sid, request_data)
    \/ \E request_data \in SimulatePayloads : simulate_agent_activity(request_data)
    \/ simulate_task_execution

Spec == Init /\ [][Next]_vars

\* The server started with ENVIRONMENT=production (line 18): connect
\* refuses a client that sends no API key.
InitProduction ==
    /\ environment = "production"
    /\ conn = [c \in Conns |-> "new"]
    /\ rooms = [c \in Conns |-> {}]
    /\ registered_agents = <<>>
    /\ active_sessions = <<>>
    /\ server_stats = [connections |-> 0, messages_processed |-> 0,
                       tasks_completed |-> 0, errors |-> 0]
    /\ inflight = [s \in Slots |-> Idle]
    /\ last = NoLast
    /\ ops = 0

SpecProduction == InitProduction /\ [][Next]_vars

----------------------------------------------------------------------------
(* health_check (lines 611-630)                                            *)

\* a Python float quotient num / den, kept exact
Ratio(num, den) == [num |-> num, den |-> den]

\* max(r, 1) of a quotient with a positive denominator
RatioMax1(r) == IF r.num >= r.den THEN r ELSE Ratio(1, 1)

\* n / r
DivideBy(n, r) == Ratio(n * r.den, r.num)

\* uptime in ms at the time of a health check: now - start_time (line 614)
Uptimes == {0, 999, 1000, 2500}

\* max(uptime / 1000, 1) (line 626)
SecondsDivisor(uptime) == RatioMax1(Ratio(uptime, 1000))

\* max(server_stats['messages_processed'], 1) (line 627)
MessagesDivisor(stats) == Max(stats.messages_processed, 1)

\* the two divisions are made without their max(..., 1) floor
health_check_unfloored(uptime) ==
    /\ last' = [op |-> "health_check", sid |-> "http", result |-> "ok", out |-> <<>>,
                uptime |-> uptime,
                performance |->
                    [active_sessions |-> Len(active_sessions),
                     registered_agents |-> Len(registered_agents),
                     messages_per_second |->
                         DivideBy(server_stats.messages_processed, Ratio(uptime, 1000)),
                     error_rate |->
                         Ratio(server_stats.errors * 100,
                               server_stats.messages_processed)]]
    /\ UNCHANGED <<environment, conn, rooms, registered_agents, active_sessions,
                   server_stats, inflight, ops>>

\* GET /health: reads the counters and answers; error_rate is
\* errors / max(...) * 100
health_check(uptime) ==
    /\ last' = [op |-> "health_check", sid |-> "http", result |-> "ok", out |-> <<>>,
                uptime |-> uptime,
                performance |->
                    [active_sessions |-> Len(active_sessions),
                     registered_agents |-> Len(registered_agents),
                     messages_per_second |->
                         DivideBy(server_stats.messages_processed,
                                  SecondsDivisor(uptime)),
                     error_rate |->
                         Ratio(server_stats.errors * 100,
                               MessagesDivisor(server_stats))]]
    /\ UNCHANGED <<environment, conn, rooms, registered_agents, active_sessions,
                   server_stats, inflight, ops>>

\* the server with its health endpoint polled at any time
NextHealth ==
    \/ Next
    \/ \E uptime \in Uptimes : health_check(uptime)

SpecHealth == Init /\ [][NextHealth]_vars

----------------------------------------------------------------------------
(* Vocabulary of the properties.                                           *)

AllIdle == \A slot \in Slots : inflight[slot] = Idle

SessionExists(session_id) == Has(active_sessions, session_id)
Session(session_id) == Lookup(active_sessions, session_id)

\* The eligibility of an agent record for a task, as the specification
\* words it: type in the allow-list when there is one, every required
\* capability present, status idle, currentTasks below maxConcurrentTasks
\* (a record without metadata counts 0 of 1).
Eligible(agent, task) ==
    LET requirements == Get(task, "requirements", EmptyDict)
        types == Get(requirements, "agentTypes", {})
        capabilities == Get(requirements, "capabilities", {})
        metadata == Get(agent, "metadata", EmptyDict)
    IN /\ types # {} => agent.type \in types
       /\ capabilities \subseteq agent.capabilities
       /\ agent.status = "idle"
       /\ Get(metadata, "maxConcurrentTasks", 1) - Get(metadata, "currentTasks", 0) >= 1

\* positions of the eligible agents in an agent map
EligibleAt(agents, task) == {i \in 1..Len(agents) : Eligible(agents[i].val, task)}

TaskSession(task) == Get(task, "sessionId", "default")

\* events of one name in an event log
EventsNamed(out, name) == SelectSeq(out, LAMBDA e : e.event = name)

\* The frame of the handler that a client event starts in the step taken
\* (a step that receives a client event is a step that increments ops).
Called == ops' = ops + 1
CalledFrame ==
    IF last' # NoLast THEN last'
    ELSE inflight'[CHOOSE slot \in Slots : inflight'[slot] # inflight[slot]]

AllSessionIds == SessionIds \cup {"default", "demo-session"}

----------------------------------------------------------------------------
\* C1: for every task T and session id S, find_suitable_agents(T, S) returns
\* exactly the agents of S's agent map that are eligible for T (type in the
\* allow-list when it is non-empty, all required capabilities, status idle,
\* currentTasks < maxConcurrentTasks), each once, and no other agent; it
\* returns the empty list when S does not exist.
C1_MatcherExact ==
    \A task \in TaskPayloads, session_id \in AllSessionIds :
        LET result == find_suitable_agents(task, session_id)
        IN IF ~ SessionExists(session_id) THEN result = <<>>
           ELSE LET agents == Session(session_id).agents
                IN /\ {result[j] : j \in 1..Len(result)}
                        = {agents[i].val : i \in EligibleAt(agents, task)}
                   /\ Len(result) = Cardinality(EligibleAt(agents, task))

\* a session holds an eligible and a non-eligible agent for some task
C1_Witness ==
    \E task \in TaskPayloads :
        /\ SessionExists(TaskSession(task))
        /\ LET agents == Session(TaskSession(task)).agents
           IN /\ Len(agents) = 2
              /\ Cardinality(EligibleAt(agents, task)) = 1
              /\ Len(find_suitable_agents(task, TaskSession(task))) = 1

----------------------------------------------------------------------------
\* C2: once the disconnect handler of connection c is over, no agent that c
\* owned when it disconnected is left: the registry holds no record of
\* those agents owned by c, and no session's agent map holds one.
C2_DisconnectCleans ==
    last.op = "disconnect" =>
        \A i \in 1..Len(last.agents_to_remove) :
            LET agent_id == last.agents_to_remove[i]
                OwnedIn(agents) ==
                    Has(agents, agent_id) /\ Lookup(agents, agent_id).socket_id = last.sid
            IN /\ ~ OwnedIn(registered_agents)
               /\ \A j \in 1..Len(active_sessions) :
                      ~ OwnedIn(active_sessions[j].val.agents)

----------------------------------------------------------------------------
\* C3: whenever no handler is part-way through its execution, every agent id
\* in a session's agent map is a key of the global registry.
C3_SessionAgentsRegistered ==
    AllIdle =>
        \A j \in 1..Len(active_sessions) :
            KeySet(active_sessions[j].val.agents) \subseteq KeySet(registered_agents)

----------------------------------------------------------------------------
(* start_task, seen from outside.                                          *)

IsStartTask(f) == f.op = "start_task" /\ Truthy(Get(f.arg, "id", None))
TaskMode(f) == Get(f.arg, "collaborationMode", "sequential")
Assigned(f) == EventsNamed(f.out, "task-assigned")
First(S) == CHOOSE i \in S : \A j \in S : i <= j

\* the task record a session holds for the task of frame f, if any
Recorded(f) ==
    /\ SessionExists(f.session_id)
    /\ f.arg.id \in DOMAIN Session(f.session_id).tasks
RecordedTask(f) == Session(f.session_id).tasks[f.arg.id]

\* C4: a start_task in sequential mode (the default) whose matcher result
\* is not empty emits exactly one task-assigned event, for the eligible
\* agent that comes first in the insertion order of the session's agent map.
C4_SequentialFirstEligible ==
    ( /\ IsStartTask(last) /\ last.result = "ok"
      /\ TaskMode(last) = "sequential"
      /\ last.suitable_agents # <<>> )
    => LET agents == Session(last.session_id).agents
       IN /\ Len(last.out) = 1
          /\ Len(Assigned(last)) = 1
          /\ Assigned(last)[1].room = last.session_id
          /\ Assigned(last)[1].taskId = last.arg.id
          /\ EligibleAt(agents, last.arg) # {}
          /\ Assigned(last)[1].agentId = agents[First(EligibleAt(agents, last.arg))].key

\* a sequential assignment in a session with two eligible agents whose
\* first agent in insertion order is not eligible
C4_Witness ==
    /\ IsStartTask(last) /\ last.result = "ok"
    /\ TaskMode(last) = "sequential"
    /\ Len(Assigned(last)) = 1
    /\ LET agents == Session(last.session_id).agents
       IN /\ Len(agents) = 2
          /\ EligibleAt(agents, last.arg) = {2}

\* a sequential assignment in a session with two eligible agents
C4_WitnessTwoEligible ==
    /\ IsStartTask(last) /\ last.result = "ok"
    /\ TaskMode(last) = "sequential"
    /\ Len(Assigned(last)) = 1
    /\ Cardinality(EligibleAt(Session(last.session_id).agents, last.arg)) = 2

----------------------------------------------------------------------------
\* C5: a start_task in parallel mode whose matcher returned k >= 1 agents
\* has emitted, when it returns, exactly k events, all task-assigned to the
\* session room with the task's id, one per suitable agent in the matcher's
\* order, no agent repeated or skipped.
C5_ParallelAllAssigned ==
    ( /\ IsStartTask(last) /\ last.result = "ok"
      /\ TaskMode(last) = "parallel"
      /\ Len(last.suitable_agents) >= 1 )
    => LET k == Len(last.suitable_agents)
       IN /\ Len(last.out) = k
          /\ Len(Assigned(last)) = k
          /\ \A i \in 1..k :
                /\ last.out[i].room = last.session_id
                /\ last.out[i].taskId = last.arg.id
                /\ last.out[i].agentId = last.suitable_agents[i].id
          /\ \A i, j \in 1..k : i # j => last.out[i].agentId # last.out[j].agentId

\* a parallel start_task has returned after assigning two agents
C5_Witness ==
    /\ IsStartTask(last) /\ last.result = "ok"
    /\ TaskMode(last) = "parallel"
    /\ Len(last.suitable_agents) = 2
    /\ Len(Assigned(last)) = 2

----------------------------------------------------------------------------
\* C6: a start_task with a task id for an existing session in which no
\* agent is eligible adds one to the session's totalTasks and emits one
\* task-error event; it emits nothing else before it returns, so exactly
\* one task-error and no task-assigned event.
C6_NoAgentTaskError ==
    [][ /\ ( /\ Called
             /\ IsStartTask(CalledFrame)
             /\ SessionExists(CalledFrame.session_id)
             /\ EligibleAt(Session(CalledFrame.session_id).agents, CalledFrame.arg) = {} )
           => /\ Lookup(active_sessions', CalledFrame.session_id).metrics.totalTasks
                    = Session(CalledFrame.session_id).metrics.totalTasks + 1
              /\ Len(CalledFrame.out) = 1
              /\ CalledFrame.out[1].event = "task-error"
              /\ CalledFrame.out[1].taskId = CalledFrame.arg.id
              /\ CalledFrame.suitable_agents = <<>>
        /\ \A sid \in Conns :
              ( /\ inflight[sid].op = "start_task"
                /\ inflight[sid].suitable_agents = <<>>
                /\ inflight'[sid] = Idle )
              => /\ last'.op = "start_task"
                 /\ last'.out = inflight[sid].out
                 /\ Assigned(last') = <<>>
      ]_vars

\* a start_task has returned after its task-error, in a session that holds
\* an agent and has counted the task
C6_Witness ==
    /\ IsStartTask(last) /\ last.result = "ok"
    /\ Len(EventsNamed(last.out, "task-error")) = 1
    /\ SessionExists(last.session_id)
    /\ Session(last.session_id).agents # <<>>
    /\ Session(last.session_id).metrics.totalTasks = 1

----------------------------------------------------------------------------
\* C7 as stated: every start_task with a task id leaves the task recorded
\* in the session named by its sessionId, with a status of the task state
\* machine, and that session's totalTasks one higher; the session is
\* created when it did not exist.
C7_TaskAlwaysRecorded ==
    [][ (Called /\ IsStartTask(CalledFrame))
        => LET session_id == CalledFrame.session_id
               before == IF SessionExists(session_id)
                         THEN Session(session_id).metrics.totalTasks ELSE 0
           IN /\ Has(active_sessions', session_id)
              /\ LET session == Lookup(active_sessions', session_id)
                 IN /\ CalledFrame.arg.id \in DOMAIN session.tasks
                    /\ session.tasks[CalledFrame.arg.id].status
                          \in {"started", "assigned", "completed", "error"}
                    /\ session.metrics.totalTasks = before + 1
      ]_vars

\* C7 as amended: a start_task with a task id for a session that exists
\* records the task there with status `started` and adds one to that
\* session's totalTasks; for a session that does not exist it creates no
\* session and records nothing (the session map is left as it was).
C7_TaskRecordedIfSessionExists ==
    [][ (Called /\ IsStartTask(CalledFrame))
        => LET session_id == CalledFrame.session_id
           IN IF SessionExists(session_id)
              THEN LET session == Lookup(active_sessions', session_id)
                   IN /\ CalledFrame.arg.id \in DOMAIN session.tasks
                      /\ session.tasks[CalledFrame.arg.id].status = "started"
                      /\ session.metrics.totalTasks
                            = Session(session_id).metrics.totalTasks + 1
              ELSE active_sessions' = active_sessions
      ]_vars

\* a start_task with a task id has returned and its session does not exist,
\* while another session does
C7_Witness ==
    /\ IsStartTask(last) /\ last.result = "ok"
    /\ ~ SessionExists(last.session_id)
    /\ active_sessions # <<>>

----------------------------------------------------------------------------
\* C8: when start_task found no eligible agent, the task record stored in
\* the session has status `error` once the handler has returned.
C8_NoAgentStatusError ==
    ( /\ IsStartTask(last) /\ last.result = "ok"
      /\ last.suitable_agents = <<>>
      /\ Recorded(last) )
    => RecordedTask(last).status = "error"

----------------------------------------------------------------------------
\* C9: once start_task has emitted a task-assigned event for a task and
\* returned, the task record stored in the session has status `assigned`
\* (or the later `completed` or `error`).
C9_AssignedStatus ==
    ( /\ IsStartTask(last) /\ last.result = "ok"
      /\ Assigned(last) # <<>>
      /\ Recorded(last) )
    => RecordedTask(last).status \in {"assigned", "completed", "error"}

----------------------------------------------------------------------------
\* C10: a progress report with status `completed` for a task recorded in
\* its session adds exactly one to the session's completedTasks and to the
\* server-wide tasks_completed, and becomes the task's lastProgress; from
\* zero both counters become 1.
C10_CompletedCounts ==
    [][ ( /\ Called
          /\ CalledFrame.op = "agent_progress"
          /\ Get(CalledFrame.arg, "status", None) = "completed"
          /\ SessionExists(CalledFrame.session_id)
          /\ Get(CalledFrame.arg, "taskId", None)
                \in DOMAIN Session(CalledFrame.session_id).tasks )
        => LET before == Session(CalledFrame.session_id)
               after == Lookup(active_sessions', CalledFrame.session_id)
           IN /\ after.metrics.completedTasks = before.metrics.completedTasks + 1
              /\ server_stats'.tasks_completed = server_stats.tasks_completed + 1
              /\ after.tasks[CalledFrame.arg.taskId].lastProgress = CalledFrame.arg
              /\ (before.metrics.completedTasks = 0 /\ server_stats.tasks_completed = 0)
                    => (after.metrics.completedTasks = 1 /\ server_stats'.tasks_completed = 1)
      ]_vars

\* the first `completed` report for a recorded task has been handled
C10_Witness ==
    /\ last.op = "agent_progress"
    /\ Get(last.arg, "status", None) = "completed"
    /\ SessionExists(last.session_id)
    /\ LET session == Session(last.session_id)
       IN /\ Get(last.arg, "taskId", None) \in DOMAIN session.tasks
          /\ Get(session.tasks[last.arg.taskId], "lastProgress", None) = last.arg
          /\ session.metrics.completedTasks = 1
    /\ server_stats.tasks_completed = 1

----------------------------------------------------------------------------
(* agent_progress, join_session and collaboration_request, seen from       *)
(* outside.                                                                *)

\* the (sessionId, taskId) of a progress report names a recorded task
NamesRecordedTask(progress_data) ==
    LET session_id == Get(progress_data, "sessionId", "default")
        task_id == Get(progress_data, "taskId", None)
    IN /\ SessionExists(session_id)
       /\ task_id \in DOMAIN Session(session_id).tasks

\* C11: a progress report that names no recorded task is broadcast as
\* exactly one task-progress event to the session room and leaves the
\* session state and the server's tasks_completed counter as they were,
\* also when its status is `completed` and the session exists.
C11_UnknownTaskNoEffect ==
    [][ ( /\ Called
          /\ CalledFrame.op = "agent_progress"
          /\ ~ NamesRecordedTask(CalledFrame.arg) )
        => /\ Len(CalledFrame.out) = 1
           /\ CalledFrame.out[1].event = "task-progress"
           /\ CalledFrame.out[1].room = CalledFrame.session_id
           /\ active_sessions' = active_sessions
           /\ server_stats'.tasks_completed = server_stats.tasks_completed
      ]_vars

----------------------------------------------------------------------------
\* number of records the session map holds for a session id
RecordsOf(sessions, session_id) ==
    Cardinality({i \in 1..Len(sessions) : sessions[i].key = session_id})

\* C12: a join_session with a non-empty session id for a session that
\* already exists (a second join) leaves exactly one record for that id,
\* at the same place; the record is not replaced: createdAt, agents, tasks
\* and metrics (and every other field but lastActivity) are unchanged, and
\* lastActivity is greater than or equal to what it was.
C12_JoinTwice ==
    [][ ( /\ Called
          /\ CalledFrame.op = "join_session"
          /\ Truthy(Get(CalledFrame.arg, "sessionId", None))
          /\ SessionExists(CalledFrame.arg.sessionId) )
        => LET session_id == CalledFrame.arg.sessionId
               before == Session(session_id)
               after == Lookup(active_sessions', session_id)
           IN /\ RecordsOf(active_sessions', session_id) = 1
              /\ Keys(active_sessions') = Keys(active_sessions)
              /\ after.createdAt = before.createdAt
              /\ after.agents = before.agents
              /\ after.tasks = before.tasks
              /\ after.metrics = before.metrics
              /\ after.lastActivity >= before.lastActivity
              /\ after = Merge(before, [lastActivity |-> after.lastActivity])
      ]_vars

\* a second join has returned for a session that holds an agent and a
\* task, at a later time than its creation
C12_Witness ==
    /\ last.op = "join_session" /\ last.result = "ok"
    /\ LET session == Session(last.session_id)
       IN /\ session.lastActivity > session.createdAt
          /\ session.agents # <<>>
          /\ session.metrics.totalTasks = 1

----------------------------------------------------------------------------
IsCollaboration(f) == f.op = "collaboration_request" /\ f.result = "ok"
TargetAgent(f) == Get(f.arg, "targetAgent", None)

\* C13: a collaboration request whose targetAgent is not an id of the
\* global registry produces exactly one event, a collaboration-error sent
\* to the requesting connection; no collaboration-request event goes to
\* the session room or to any other connection.
C13_MissingTargetError ==
    ( /\ IsCollaboration(last)
      /\ Truthy(TargetAgent(last))
      /\ ~ Has(registered_agents, TargetAgent(last)) )
    => /\ Len(last.out) = 1
       /\ last.out[1].event = "collaboration-error"
       /\ last.out[1].room = last.sid
       /\ last.out[1].requestId = Get(last.arg, "requestId", None)
       /\ EventsNamed(last.out, "collaboration-request") = <<>>

\* a request for an unregistered target has been answered while the
\* registry holds another agent and the session exists
C13_Witness ==
    /\ IsCollaboration(last)
    /\ Truthy(TargetAgent(last))
    /\ ~ Has(registered_agents, TargetAgent(last))
    /\ registered_agents # <<>>
    /\ SessionExists(last.session_id)
    /\ EventsNamed(last.out, "collaboration-error") # <<>>

----------------------------------------------------------------------------
\* C14: a collaboration request whose targetAgent is an id of the global
\* registry produces exactly one event, a collaboration-request carrying
\* the request, sent to the connection the registry names as the owner of
\* that agent and to no other connection or room, whether or not the agent
\* is in the agent map of the request's session.
C14_TargetDelivery ==
    ( /\ IsCollaboration(last)
      /\ Truthy(TargetAgent(last))
      /\ Has(registered_agents, TargetAgent(last)) )
    => /\ Len(last.out) = 1
       /\ last.out[1].event = "collaboration-request"
       /\ last.out[1].room = Lookup(registered_agents, TargetAgent(last)).socket_id
       /\ last.out[1].request = last.arg

\* a request has been delivered to another connection, the owner of the
\* target, and the target is not in the request's session, which exists
C14_Witness ==
    /\ IsCollaboration(last)
    /\ Truthy(TargetAgent(last))
    /\ Has(registered_agents, TargetAgent(last))
    /\ Lookup(registered_agents, TargetAgent(last)).socket_id \in Conns \ {last.sid}
    /\ SessionExists(last.session_id)
    /\ ~ Has(Session(last.session_id).agents, TargetAgent(last))
    /\ last.out[1].room # last.sid

----------------------------------------------------------------------------
\* C15 as stated: every collaboration request handled is afterwards in the
\* pending-request map of the session named by its sessionId, with status
\* `pending`, whether or not that session existed before the request and
\* whether or not the target was found.
C15_RequestAlwaysStored ==
    [][ (Called /\ CalledFrame.op = "collaboration_request")
        => LET session_id == CalledFrame.session_id
               request_id == Get(CalledFrame.arg, "requestId", None)
           IN /\ Has(active_sessions', session_id)
              /\ LET requests == Lookup(active_sessions', session_id).collaborationRequests
                 IN /\ request_id \in DOMAIN requests
                    /\ requests[request_id].status = "pending"
      ]_vars

\* C15 as amended: a collaboration request for a session that exists is
\* afterwards in that session's pending-request map under its requestId,
\* with status `pending` and the fields of the request, whether or not the
\* target was found; for a session that does not exist the request is not
\* stored and no session is created (the session map is left as it was).
C15_RequestStoredIfSessionExists ==
    [][ (Called /\ CalledFrame.op = "collaboration_request")
        => LET session_id == CalledFrame.session_id
               request_id == Get(CalledFrame.arg, "requestId", None)
           IN IF SessionExists(session_id)
              THEN LET requests == Lookup(active_sessions', session_id).collaborationRequests
                   IN /\ request_id \in DOMAIN requests
                      /\ requests[request_id].status = "pending"
                      /\ \A k \in DOMAIN CalledFrame.arg :
                            requests[request_id][k] = CalledFrame.arg[k]
              ELSE active_sessions' = active_sessions
      ]_vars

\* a collaboration request for a session that does not exist has been
\* handled while another session exists, which holds no request
C15_Witness ==
    /\ IsCollaboration(last)
    /\ ~ SessionExists(last.session_id)
    /\ active_sessions # <<>>
    /\ \A i \in 1..Len(active_sessions) :
          active_sessions[i].val.collaborationRequests = EmptyDict

\* a request for a missing target has been stored in its session
C15_WitnessStored ==
    /\ IsCollaboration(last)
    /\ SessionExists(last.session_id)
    /\ EventsNamed(last.out, "collaboration-error") # <<>>
    /\ last.arg.requestId \in DOMAIN Session(last.session_id).collaborationRequests

----------------------------------------------------------------------------
\* the identifier a handler requires of its payload
RequiredId(f) ==
    CASE f.op = "join_session" -> Get(f.arg, "sessionId", None)
      [] f.op = "register_agent" -> Get(f.arg, "id", None)
      [] f.op = "start_task" -> Get(f.arg, "id", None)

\* C16: a join_session without a session id, a register_agent without an
\* agent id or a start_task without a task id returns after one `error`
\* event sent to the originating connection only, and leaves the registry,
\* every session record, the room membership and every server counter
\* (messages_processed included) exactly as they were.
C16_ValidationNoEffect ==
    [][ ( /\ Called
          /\ CalledFrame.op \in {"join_session", "register_agent", "start_task"}
          /\ ~ Truthy(RequiredId(CalledFrame)) )
        => /\ last' = CalledFrame
           /\ last'.result = "invalid"
           /\ Len(last'.out) = 1
           /\ last'.out[1].event = "error"
           /\ last'.out[1].room = last'.sid
           /\ registered_agents' = registered_agents
           /\ active_sessions' = active_sessions
           /\ rooms' = rooms
           /\ server_stats' = server_stats
      ]_vars

\* a start_task without a task id has been refused in a state where a
\* session holds an agent and a task and messages have been counted
C16_Witness ==
    /\ last.op = "start_task" /\ last.result = "invalid"
    /\ ~ Truthy(Get(last.arg, "id", None))
    /\ server_stats.messages_processed = 1
    /\ \E i \in 1..Len(active_sessions) :
          /\ active_sessions[i].val.agents # <<>>
          /\ active_sessions[i].val.metrics.totalTasks = 1

\* a join_session without a session id has been refused
C16_WitnessJoin ==
    /\ last.op = "join_session" /\ last.result = "invalid"
    /\ active_sessions # <<>>

\* a register_agent without an agent id has been refused
C16_WitnessRegister ==
    /\ last.op = "register_agent" /\ last.result = "invalid"
    /\ rooms[last.sid] # {}

----------------------------------------------------------------------------
\* the session ids whose record differs between a step's two states
ChangedSessions ==
    {k \in KeySet(active_sessions) \cup KeySet(active_sessions') :
        \/ ~ Has(active_sessions, k)
        \/ ~ Has(active_sessions', k)
        \/ Lookup(active_sessions', k) # Lookup(active_sessions, k)}

\* the events a handler has emitted in the step taken, f being its frame
\* after the step
NewEvents(f) ==
    LET before == IF inflight[f.sid] = Idle THEN 0 ELSE Len(inflight[f.sid].out)
    IN SubSeq(f.out, before + 1, Len(f.out))

\* C17: register_agent with an agent id adds the agent to the agent map of
\* every existing session whose room the invoking connection is in when it
\* is called, and to no other session, and emits exactly one
\* agent-registered event to each of those sessions.  Step by step: every
\* segment of the handler changes at most the session it emits to, where
\* it stores the stamped record under the agent id and touches no other
\* agent; when the handler returns it has emitted one agent-registered
\* event per room of the connection and nothing else.
C17_RegisterInRooms ==
    [][ ( /\ CalledFrame.op = "register_agent"
          /\ Truthy(Get(CalledFrame.arg, "id", None)) )
        => LET f == CalledFrame
               new == NewEvents(f)
               agent_id == f.arg.id
           IN /\ Called => f.rooms = rooms[f.sid]
              /\ Len(new) <= 1
              /\ ChangedSessions \subseteq {new[i].room : i \in 1..Len(new)}
              /\ \A i \in 1..Len(new) :
                    /\ new[i].event = "agent-registered"
                    /\ new[i].room \in f.rooms
                    /\ new[i].agent = f.agent_info
                    /\ LET before == Session(new[i].room).agents
                           after == Lookup(active_sessions', new[i].room).agents
                       IN /\ Has(after, agent_id)
                          /\ Lookup(after, agent_id) = f.agent_info
                          /\ f.agent_info.socket_id = f.sid
                          /\ KeySet(after) = KeySet(before) \cup {agent_id}
                          /\ \A k \in KeySet(before) \ {agent_id} :
                                Lookup(after, k) = Lookup(before, k)
              /\ last' # NoLast
                    => /\ Len(f.out) = Cardinality(f.rooms)
                       /\ {f.out[i].room : i \in 1..Len(f.out)} = f.rooms
      ]_vars

\* a register_agent has returned after adding the agent to the two sessions
\* of its connection, and a third session does not hold the agent
C17_Witness ==
    /\ last.op = "register_agent" /\ last.result = "ok"
    /\ Len(last.out) = 2
    /\ \A i \in 1..2 : Has(Session(last.out[i].room).agents, last.arg.id)
    /\ \E i \in 1..Len(active_sessions) :
          /\ active_sessions[i].key \notin last.rooms
          /\ ~ Has(active_sessions[i].val.agents, last.arg.id)

----------------------------------------------------------------------------
\* C18: the disconnect handler leaves every session's task map and every
\* session's metrics unchanged (no session is removed either), and emits
\* no event other than agent-unregistered: tasks given to an agent of the
\* disconnecting connection are neither removed, re-statused nor
\* re-assigned.  It holds of every segment of the handler, the one that
\* ends with an exception included.
C18_DisconnectKeepsTasks ==
    [][ CalledFrame.op = "disconnect"
        => /\ Keys(active_sessions') = Keys(active_sessions)
           /\ \A i \in 1..Len(active_sessions) :
                 /\ active_sessions'[i].val.tasks = active_sessions[i].val.tasks
                 /\ active_sessions'[i].val.metrics = active_sessions[i].val.metrics
           /\ \A i \in 1..Len(NewEvents(CalledFrame)) :
                 NewEvents(CalledFrame)[i].event = "agent-unregistered"
           /\ last' # NoLast
                 => /\ EventsNamed(last'.out, "task-assigned") = <<>>
                    /\ EventsNamed(last'.out, "task-error") = <<>>
      ]_vars

\* a connection has disconnected and its agent has been removed from a
\* session that still holds the task submitted while the agent was there
C18_Witness ==
    /\ last.op = "disconnect" /\ last.result = "ok"
    /\ Len(last.out) >= 1
    /\ LET session == Session(last.out[1].room)
       IN /\ session.agents = <<>>
          /\ session.tasks # EmptyDict
          /\ session.metrics.totalTasks = 1

----------------------------------------------------------------------------
\* the event handler of connection sid continues after an await in the
\* step taken
Resumes(sid) == inflight[sid] # Idle /\ inflight'[sid] # inflight[sid]

\* C19: every event handler does all of its reads and writes of the shared
\* registry, session and counter state before it first yields control: a
\* handler that continues after an await (disconnect's removal loop,
\* register_agent's add loop, start_task after its task-error emit) writes
\* none of them, so that handlers interleaved at their awaits leave the
\* state that running them one after another leaves.
C19_HandlersAtomic ==
    [][ \A sid \in Conns :
           Resumes(sid)
           => /\ registered_agents' = registered_agents
              /\ active_sessions' = active_sessions
              /\ server_stats' = server_stats
      ]_vars

\* C19, on the state: an agent that a returned disconnect handler had to
\* remove is in no session when all handlers have returned, as it would be
\* had the handlers run one after another.
C19_DisconnectSerial ==
    (AllIdle /\ last.op = "disconnect")
    => \A i \in 1..Len(last.agents_to_remove) :
          ~ Has(registered_agents, last.agents_to_remove[i])
          => \A j \in 1..Len(active_sessions) :
                ~ Has(active_sessions[j].val.agents, last.agents_to_remove[i])

----------------------------------------------------------------------------
Faulted(f) == f.op # "none" /\ f.result \in {"KeyError", "RuntimeError"}

\* C20: when a handler ends with an unexpected fault, the fault has been
\* converted into an error event sent to the originating connection, and
\* the changes the handler was making are not left half-applied: every
\* agent it has taken out of the registry is out of every session too.
C20_FaultContained ==
    Faulted(last)
    => /\ \E i \in 1..Len(last.out) :
             last.out[i].event = "error" /\ last.out[i].room = last.sid
       /\ \A i \in 1..Len(last.agents_to_remove) :
             ~ Has(registered_agents, last.agents_to_remove[i])
             => \A j \in 1..Len(active_sessions) :
                   ~ Has(active_sessions[j].val.agents, last.agents_to_remove[i])

\* C20, its second part alone: a faulted handler leaves no agent in a
\* session that it has taken out of the registry.
C20_FaultNotHalfApplied ==
    Faulted(last)
    => \A i \in 1..Len(last.agents_to_remove) :
          ~ Has(registered_agents, last.agents_to_remove[i])
          => \A j \in 1..Len(active_sessions) :
                ~ Has(active_sessions[j].val.agents, last.agents_to_remove[i])

----------------------------------------------------------------------------
(* The server-wide counters.                                               *)

CoordinationEvents == {"start_task", "agent_progress", "collaboration_request"}

\* C21 as stated: messages_processed increases by exactly one for every
\* start_task, agent_progress and collaboration_request event received,
\* and no other step (connect, disconnect, join_session, register_agent,
\* a handler that continues after an await) changes it.
C21_EveryMessageCounted ==
    [][ server_stats'.messages_processed =
            server_stats.messages_processed
              + (IF Called /\ CalledFrame.op \in CoordinationEvents THEN 1 ELSE 0)
      ]_vars

\* C21 as amended: messages_processed increases by exactly one for every
\* agent_progress and collaboration_request event received and for every
\* start_task event that carries a task id; a start_task without a task id
\* and every other step (connect, disconnect, join_session, register_agent,
\* a handler that continues after an await) leave it unchanged.
C21_ValidMessageCounted ==
    [][ server_stats'.messages_processed =
            server_stats.messages_processed
              + (IF /\ Called
                    /\ CalledFrame.op \in CoordinationEvents
                    /\ CalledFrame.op = "start_task"
                          => Truthy(Get(CalledFrame.arg, "id", None))
                 THEN 1 ELSE 0)
      ]_vars

\* four client events have been received, the last a start_task without a
\* task id, and two of them have been counted
C21_Witness ==
    /\ ops = 4
    /\ last.op = "start_task" /\ last.result = "invalid"
    /\ server_stats.messages_processed = 2
    /\ server_stats.connections = 2

----------------------------------------------------------------------------
\* the frame of a start_task whose matcher result was empty
Unmatched(f) ==
    /\ f.op = "start_task"
    /\ "suitable_agents" \in DOMAIN f
    /\ f.suitable_agents = <<>>

\* such a start_task returns in the step taken
ReturnsUnmatched == last' # NoLast /\ Unmatched(last')

\* C22: the server-wide error counter increases by exactly one for each
\* start_task whose matcher result is empty (as that handler returns) and
\* no other step changes it; that handler returns normally and leaves its
\* connection open and free to send its next event.
C22_ErrorsCountUnmatched ==
    [][ /\ server_stats'.errors =
              server_stats.errors + (IF ReturnsUnmatched THEN 1 ELSE 0)
        /\ ReturnsUnmatched
              => /\ last'.result = "ok"
                 /\ EventsNamed(last'.out, "task-error") # <<>>
                 /\ conn'[last'.sid] = "open"
                 /\ inflight'[last'.sid] = Idle
        /\ \A sid \in Conns :
              (Unmatched(inflight[sid]) /\ inflight'[sid] # inflight[sid])
              => ReturnsUnmatched
      ]_vars

\* after a start_task that found no agent, the same connection has had a
\* task assigned
C22_Witness ==
    /\ server_stats.errors = 1
    /\ IsStartTask(last) /\ last.result = "ok"
    /\ Assigned(last) # <<>>
    /\ server_stats.messages_processed = 2

----------------------------------------------------------------------------
\* a connect handler, or the first segment of a disconnect handler, runs in
\* the step taken
Connects == \E c \in Conns : conn[c] = "new" /\ conn'[c] # "new"
Disconnects == \E c \in Conns : conn[c] # "closed" /\ conn'[c] = "closed"

\* connections the server has accepted and not yet seen disconnect
OpenConnections(connections) == {c \in Conns : connections[c] = "open"}

\* C23: the connection counter is incremented by one on each connect and
\* decremented by one, floored at zero, on each disconnect, and changed by
\* nothing else; it is never negative; and, every connect being matched by
\* at most one disconnect, it equals the number of open connections
\* whenever no refused client is waiting for its disconnect, also after a
\* connect that was refused for a missing API key.
C23_ConnectionCounter ==
    [][ /\ server_stats'.connections =
              IF Connects THEN server_stats.connections + 1
              ELSE IF Disconnects THEN Max(0, server_stats.connections - 1)
              ELSE server_stats.connections
        /\ server_stats'.connections >= 0
        /\ (\A c \in Conns : conn'[c] # "closing")
              => server_stats'.connections = Cardinality(OpenConnections(conn'))
      ]_vars

\* a client without an API key has been refused and has disconnected
\* before any event was received, while the other client is connected
C23_Witness ==
    /\ environment = "production"
    /\ last.op = "disconnect"
    /\ rooms[last.sid] = {}
    /\ \E c \in Conns : conn[c] = "open"
    /\ server_stats.connections = 1
    /\ ops = 0

----------------------------------------------------------------------------
\* C24: the error rate a health check reports is errors divided by
\* max(messages_processed, 1), times 100, and messages-per-second is
\* messages_processed divided by max(uptime in seconds, 1); in every
\* reachable counter state, messages_processed = 0 and uptime = 0 included,
\* both divisors are at least 1, and the error rate with zero messages is 0.
C24_DerivedRates ==
    last.op = "health_check"
    => LET rate == last.performance.error_rate
           mps == last.performance.messages_per_second
           seconds == SecondsDivisor(last.uptime)
       IN /\ rate.den >= 1
          /\ rate.den = Max(server_stats.messages_processed, 1)
          /\ rate.num = server_stats.errors * 100
          /\ seconds.den > 0 /\ seconds.num >= seconds.den
          /\ seconds.num * 1000 = Max(last.uptime, 1000) * seconds.den
          /\ mps.den > 0
          /\ mps.num * seconds.num = server_stats.messages_processed * seconds.den * mps.den
          /\ server_stats.messages_processed = 0 => rate.num = 0

\* a health check at uptime 0 before any message was processed
C24_Witness ==
    /\ last.op = "health_check"
    /\ last.uptime = 0
    /\ server_stats.messages_processed = 0
    /\ last.performance.error_rate = Ratio(0, 1)
    /\ last.performance.messages_per_second.num = 0

\* a health check that reports an error rate of 50 per cent
C24_WitnessHalf ==
    /\ last.op = "health_check"
    /\ server_stats.errors = 1
    /\ last.performance.error_rate = Ratio(100, 2)

----------------------------------------------------------------------------
\* ids of the tasks a session record holds
TaskIds(session) == DOMAIN session.tasks

\* C25: a session id present in the session map is present after every
\* step, and a task id present in a session's task map is present in that
\* session's task map after every step: no operation, a disconnect
\* included, removes a session or a task.
C25_SessionsAndTasksStay ==
    [][ \A session_id \in KeySet(active_sessions) :
            /\ Has(active_sessions', session_id)
            /\ TaskIds(Session(session_id))
                   \subseteq TaskIds(Lookup(active_sessions', session_id))
      ]_vars

\* every connection has disconnected, the last one as owner of an agent
\* removed from a session that still holds a task
C25_Witness ==
    /\ \A c \in Conns : conn[c] = "closed"
    /\ last.op = "disconnect"
    /\ EventsNamed(last.out, "agent-unregistered") # <<>>
    /\ \E session_id \in KeySet(active_sessions) :
           /\ TaskIds(Session(session_id)) # {}
           /\ Session(session_id).agents = <<>>

----------------------------------------------------------------------------
\* the connection that most recently registered an agent id
Owner(agents, agent_id) == Get(Lookup(agents, agent_id), "socket_id", None)

\* session ids whose agent map holds agent_id
SessionsHolding(sessions, agent_id) ==
    {sessions[j].key : j \in {i \in 1..Len(sessions) : Has(sessions[i].val.agents, agent_id)}}

\* C26: an agent record is removed from the registry exactly when the
\* connection that most recently registered its id disconnects: a record
\* leaves the registry only in the disconnect handler of its current owner
\* (after a re-registration from a second connection, the second), and
\* when the disconnect handler of a connection is over, the registry holds
\* no agent owned by it and no session, joined by the connection or not,
\* holds an agent that the disconnect removed from the registry.
C26_OwnerDisconnectRemoves ==
    [][ /\ \A agent_id \in KeySet(registered_agents) \ KeySet(registered_agents') :
               /\ CalledFrame.op = "disconnect"
               /\ CalledFrame.sid = Owner(registered_agents, agent_id)
        /\ last'.op = "disconnect"
           => /\ \A agent_id \in KeySet(registered_agents') :
                     Owner(registered_agents', agent_id) # last'.sid
              /\ \A i \in 1..Len(last'.agents_to_remove) :
                     LET agent_id == last'.agents_to_remove[i]
                     IN ~ Has(registered_agents', agent_id)
                        => SessionsHolding(active_sessions', agent_id) = {}
      ]_vars

----------------------------------------------------------------------------
\* the agent map of a session, empty for a session that does not exist
AgentsOf(sessions, session_id) ==
    IF Has(sessions, session_id) THEN Lookup(sessions, session_id).agents ELSE <<>>

\* C27: a join_session changes neither the global registry nor any
\* session's agent map (a session it creates has an empty one), so the
\* agents the matcher finds for any task in any session are the same after
\* the join as before: an agent its connection registered before the join
\* is not added to the joined session.
C27_JoinLeavesAgents ==
    [][ (Called /\ CalledFrame.op = "join_session")
        => /\ registered_agents' = registered_agents
           /\ \A session_id \in KeySet(active_sessions') :
                  AgentsOf(active_sessions', session_id)
                      = AgentsOf(active_sessions, session_id)
           /\ \A task \in TaskPayloads : \A session_id \in AllSessionIds :
                  find_suitable_agents_in(active_sessions', task, session_id)
                      = find_suitable_agents_in(active_sessions, task, session_id)
      ]_vars

\* a connection has joined a session after it registered an agent that is
\* eligible for a task of that session: the session does not hold the
\* agent and the matcher finds nobody for the task
C27_Witness ==
    /\ last.op = "join_session" /\ last.result = "ok"
    /\ \E agent_id \in KeySet(registered_agents) :
           /\ Owner(registered_agents, agent_id) = last.sid
           /\ ~ Has(Session(last.session_id).agents, agent_id)
           /\ \E task \in TaskPayloads :
                  /\ TaskSession(task) = last.session_id
                  /\ Eligible(Lookup(registered_agents, agent_id), task)
                  /\ find_suitable_agents(task, last.session_id) = <<>>

----------------------------------------------------------------------------
\* C28: no step of a start_task or of an agent_progress handler changes an
\* agent record: the registry and every session's agent map are the same
\* after the step as before (status and currentTasks are not updated by an
\* assignment or a completion), so the agents the matcher finds for any
\* task are the same after it, and an agent can be named in more
\* task-assigned events than its maxConcurrentTasks.
C28_AssignmentLeavesAgents ==
    [][ CalledFrame.op \in {"start_task", "agent_progress"}
        => /\ registered_agents' = registered_agents
           /\ KeySet(active_sessions') = KeySet(active_sessions)
           /\ \A session_id \in KeySet(active_sessions') :
                  AgentsOf(active_sessions', session_id)
                      = AgentsOf(active_sessions, session_id)
           /\ \A task \in TaskPayloads : \A session_id \in AllSessionIds :
                  find_suitable_agents_in(active_sessions', task, session_id)
                      = find_suitable_agents_in(active_sessions, task, session_id)
      ]_vars

\* two tasks have been submitted to a session whose only agent ever is a1
\* with maxConcurrentTasks = 1: no connection has disconnected, no
\* submission failed to find an agent and nothing was completed, so a1 was
\* named in the task-assigned event of both
C28_Witness ==
    /\ last.op = "start_task" /\ last.result = "ok"
    /\ AllIdle
    /\ \A c \in Conns : conn[c] \in {"new", "open"}
    /\ server_stats.errors = 0
    /\ server_stats.messages_processed = 2
    /\ server_stats.tasks_completed = 0
    /\ Keys(registered_agents) = <<"a1">>
    /\ LET session == Session(last.session_id)
       IN /\ Keys(session.agents) = <<"a1">>
          /\ Lookup(session.agents, "a1").metadata.maxConcurrentTasks = 1
          /\ session.metrics.totalTasks = 2
          /\ session.metrics.completedTasks = 0
    /\ Len(Assigned(last)) = 1
    /\ Assigned(last)[1].agentId = "a1"

----------------------------------------------------------------------------
\* the fields of an agent record the sessions and the registry share
AgentView(agent) ==
    [socket_id |-> Get(agent, "socket_id", None), status |-> Get(agent, "status", None),
     capabilities |-> Get(agent, "capabilities", None), type |-> Get(agent, "type", None)]

\* C29: in every state, for every session and every agent id in its agent
\* map, the registry holds a record of that id with the same owning
\* connection, status, capabilities and type as the session's record.
C29_SessionRecordIsRegistryRecord ==
    \A j \in 1..Len(active_sessions) :
        LET agents == active_sessions[j].val.agents
        IN \A i \in 1..Len(agents) :
               /\ Has(registered_agents, agents[i].key)
               /\ AgentView(agents[i].val)
                      = AgentView(Lookup(registered_agents, agents[i].key))

\* the same for the agents that the registry holds, at the return of a
\* register_agent from a connection that is not in the session's room
C29_AfterForeignRegistration ==
    (last.op = "register_agent" /\ last.result = "ok")
    => \A j \in 1..Len(active_sessions) :
           LET agents == active_sessions[j].val.agents
           IN (active_sessions[j].key \notin rooms[last.sid] /\ Has(agents, last.arg.id))
              => AgentView(Lookup(agents, last.arg.id))
                     = AgentView(Lookup(registered_agents, last.arg.id))

----------------------------------------------------------------------------
\* the demo endpoint has not been called: it registers an agent owned by
\* 'demo', which no disconnect removes
DemoNeverCalled ==
    \A agent_id \in KeySet(registered_agents) : Owner(registered_agents, agent_id) # "demo"

\* each session's completedTasks is at most its totalTasks
CompletedAtMostTotal ==
    \A j \in 1..Len(active_sessions) :
        active_sessions[j].val.metrics.completedTasks
            <= active_sessions[j].val.metrics.totalTasks

\* C30: in every state reached by client events alone (start_task and
\* agent_progress among them, in any order and number), each session's
\* completedTasks is at most its totalTasks.
C30_CompletedAtMostTotal == DemoNeverCalled => CompletedAtMostTotal

\* the same for the reports that name a recorded task: such a report does
\* not take completedTasks above totalTasks in a session where it was not
\* above before
C30_RecordedTaskCompletedOnce ==
    [][ ( /\ Called
          /\ CalledFrame.op = "agent_progress"
          /\ NamesRecordedTask(CalledFrame.arg)
          /\ CompletedAtMostTotal )
        => LET metrics == Lookup(active_sessions', CalledFrame.session_id).metrics
           IN metrics.completedTasks <= metrics.totalTasks
      ]_vars

----------------------------------------------------------------------------
\* sum of completedTasks over the sessions of a session map
RECURSIVE SumCompleted(_)
SumCompleted(sessions) ==
    IF sessions = <<>> THEN 0
    ELSE Head(sessions).val.metrics.completedTasks + SumCompleted(Tail(sessions))

\* C31: in every state the server-wide tasks_completed counter equals the
\* sum of completedTasks over all sessions.
C31_CompletedCountersAgree ==
    server_stats.tasks_completed = SumCompleted(active_sessions)

\* a simulated task has completed in the demo session and a client has
\* reported a completion in another session: two sessions count one each
C31_Witness ==
    /\ last.op = "simulate_task_execution"
    /\ server_stats.tasks_completed = 2
    /\ SessionExists("demo-session")
    /\ Session("demo-session").metrics.completedTasks = 1
    /\ SessionExists("s1")
    /\ Session("s1").metrics.completedTasks = 1

----------------------------------------------------------------------------
\* C32: a start_task with a task id already recorded in its session, which
\* exists, replaces the stored record by the submitted definition with
\* status `started` (a stored last progress is discarded), leaves the set
\* of recorded task ids as it was and increments totalTasks by one; after
\* every step each session's totalTasks is at least the number of task
\* records it holds.
C32_ResubmissionReplaces ==
    [][ /\ ( /\ Called
             /\ IsStartTask(CalledFrame)
             /\ SessionExists(CalledFrame.session_id)
             /\ CalledFrame.arg.id \in TaskIds(Session(CalledFrame.session_id)) )
           => LET before == Session(CalledFrame.session_id)
                  after == Lookup(active_sessions', CalledFrame.session_id)
                  task == after.tasks[CalledFrame.arg.id]
              IN /\ task.status = "started"
                 /\ "lastProgress" \notin DOMAIN task
                 /\ "lastUpdate" \notin DOMAIN task
                 /\ \A k \in DOMAIN CalledFrame.arg :
                        k # "status" => task[k] = CalledFrame.arg[k]
                 /\ DOMAIN task = DOMAIN CalledFrame.arg
                                      \cup {"startTime", "status", "environment"}
                 /\ TaskIds(after) = TaskIds(before)
                 /\ after.metrics.totalTasks = before.metrics.totalTasks + 1
        /\ \A j \in 1..Len(active_sessions') :
               active_sessions'[j].val.metrics.totalTasks
                   >= Cardinality(TaskIds(active_sessions'[j].val))
      ]_vars

\* t1 has been submitted twice to a session in which a completion was
\* reported: the session holds one task record, without a last progress,
\* and counts two tasks
C32_Witness ==
    /\ last.op = "start_task" /\ IsStartTask(last)
    /\ SessionExists(last.session_id)
    /\ LET session == Session(last.session_id)
       IN /\ TaskIds(session) = {last.arg.id}
          /\ session.metrics.totalTasks = 2
          /\ session.metrics.completedTasks = 1
          /\ session.tasks[last.arg.id].status = "started"
          /\ "lastProgress" \notin DOMAIN session.tasks[last.arg.id]

----------------------------------------------------------------------------
\* C33: every task-assigned event names an agent that, when the event is
\* emitted, is in the agent map of the task's session with status idle,
\* also when the event is emitted by a start_task that continues after an
\* await during which other handlers ran.
C33_AssignedAgentPresent ==
    [][ CalledFrame.op = "start_task"
        => LET emitted == EventsNamed(NewEvents(CalledFrame), "task-assigned")
           IN \A i \in 1..Len(emitted) :
                  LET agents == AgentsOf(active_sessions', emitted[i].room)
                  IN /\ Has(agents, emitted[i].agentId)
                     /\ Lookup(agents, emitted[i].agentId).status = "idle"
      ]_vars

====
